---- MODULE Spec2Model ----
(***************************************************************************)
(* Contract and payment lifecycle of the Untergang backend                 *)
(* (src/Untergang/src/handler/mod.rs, src/Untergang/src/db/mod.rs).        *)
(*                                                                         *)
(* The store is the only shared state: the tables personal_client,         *)
(* company_client, software, discount, contract and payment.  Every        *)
(* request is served by an independent task, and a task can be suspended   *)
(* at each `.await` on the pool.  Every handler is therefore written as a  *)
(* sequence of polls, one per store access: a poll takes the tables, the   *)
(* clock and the task's locals and returns the tables, the locals and,     *)
(* when the handler returns, the response.                                 *)
(*                                                                         *)
(*   Spec     tasks interleave poll by poll                                *)
(*   SpecSeq  requests are served one at a time, each to completion        *)
(*                                                                         *)
(* Numbers.  Amounts are counted in grains (1000 to the currency unit) and  *)
(* percentages in hundredths (10 = 0.10).  The handlers compute in f64 and  *)
(* the store keeps decimals: a whole unit is the same number in both, and   *)
(* an f64 product that IEEE 754 rounds off the decimal product is one grain *)
(* off it (see Units and F64RoundingError).                                 *)
(***************************************************************************)
EXTENDS Integers, Sequences, FiniteSets, TLC

VARIABLES
    personal_client,   \* set of rows [pesel, is_deleted]
    company_client,    \* set of rows [krs, is_deleted]
    software,          \* product id -> price
    discount,          \* sequence of discount rows
    contract,          \* sequence of contract rows, id = position
    payment,           \* sequence of payment rows, id = position
    now,               \* Utc::now() / CURRENT_DATE
    task,              \* task -> the locals of the request it is serving
    response           \* the last response returned

vars == <<personal_client, company_client, software, discount, contract,
          payment, now, task, response>>

\* The tables as one value, as the pool hands them to a query.
Store ==
    [personal_client |-> personal_client, company_client |-> company_client,
     software |-> software, discount |-> discount, contract |-> contract,
     payment |-> payment]

----------------------------------------------------------------------------
(* Bounds *)

MaxContracts == 2
MaxPayments == 2
MaxNow == 1

\* Two tasks: the least that lets two requests interleave.
Tasks == {1, 2}

----------------------------------------------------------------------------
(* Values *)

Individual(v) == [type |-> "individual", value |-> v]
Company(v) == [type |-> "company", value |-> v]
NoClient == [type |-> "", value |-> ""]

\* Amounts are counted in grains, 1000 to the currency unit.  The decimals
\* of requests and catalogue are whole units.  An f64 that misses a decimal
\* by a rounding error is one grain off it: the grain keeps the direction
\* of the error, which is all that equality and order of amounts depend on,
\* and not its size (below 10^-12).
Units(n) == n * 1000

\* Option<T>: None is <<>>, Some(x) is <<x>>.
None == <<>>
Some(x) == <<x>>

NoContract ==
    [id |-> 0, contract_type |-> "", personal_client_pesel |-> "",
     company_client_krs |-> "", product_id |-> 0, price |-> 0,
     start_date |-> 0, end_date |-> 0, years_supported |-> 0,
     is_signed |-> FALSE, is_paid |-> FALSE, is_deleted |-> FALSE]

\* The locals of a task; Idle is a task serving no request.
Idle ==
    [pc |-> "idle", client_id |-> NoClient, product_id |-> 0,
     start_date |-> 0, end_date |-> 0, years_supported |-> 0,
     variant |-> "", contract_id |-> 0, amount |-> 0,
     highest_discount |-> None, discount |-> 0, price |-> 0,
     contract |-> NoContract, outstanding_payments |-> 0]

With(l, pc, locals) ==
    [f \in DOMAIN Idle |->
        IF f = "pc" THEN pc
        ELSE IF f \in DOMAIN locals THEN locals[f]
        ELSE l[f]]

NoLocals == [x \in {} |-> 0]

\* StatusCode
OK == 200
CREATED == 201
BAD_REQUEST == 400

NoResponse == [status |-> 0, body |-> ""]

\* The outcome of a poll: the handler is suspended at its next store
\* access, or has returned.
Pending(db, l) == [db |-> db, task |-> l, reply |-> NoResponse]
Return(db, status, body) ==
    [db |-> db, task |-> Idle, reply |-> [status |-> status, body |-> body]]

----------------------------------------------------------------------------
(* Store reads (db/mod.rs) *)

check_if_product_exists(db, product_id) == product_id \in DOMAIN db.software

check_if_client_exists(db, client_id) ==
    IF client_id.type = "individual"
    THEN \E r \in db.personal_client : r.pesel = client_id.value /\ ~r.is_deleted
    ELSE \E r \in db.company_client : r.krs = client_id.value /\ ~r.is_deleted

check_product_and_client_exist(db, product_id, client_id) ==
    <<check_if_product_exists(db, product_id), check_if_client_exists(db, client_id)>>

\* The column of a contract row that a query binds a client id of this
\* type to.
OwnerColumn(row, client_id) ==
    IF client_id.type = "individual"
    THEN row.personal_client_pesel
    ELSE row.company_client_krs

\* The duplicate check reading the other client type's column.
check_if_client_has_contract_for_product_wrong_column(db, client_id, product_id) ==
    \E i \in 1..Len(db.contract) :
        /\ OwnerColumn(db.contract[i],
                       IF client_id.type = "individual"
                       THEN Company(client_id.value)
                       ELSE Individual(client_id.value)) = client_id.value
        /\ db.contract[i].product_id = product_id
        /\ ~db.contract[i].is_deleted

check_if_client_has_contract_for_product(db, client_id, product_id) ==
    \E i \in 1..Len(db.contract) :
        /\ OwnerColumn(db.contract[i], client_id) = client_id.value
        /\ db.contract[i].product_id = product_id
        /\ ~db.contract[i].is_deleted

\* contract.client_id, the column find_discounts_for_client filters on: the
\* natural key of the owning client.
contract_client_id(row) ==
    IF row.contract_type = "private"
    THEN row.personal_client_pesel
    ELSE row.company_client_krs

SetMax(S) == CHOOSE x \in S : \A y \in S : y <= x

\* The first query without the product filter.
highest_discount_any_product(db, clock, product_id) ==
    LET current == {i \in 1..Len(db.discount) :
                       /\ ~db.discount[i].is_deleted
                       /\ db.discount[i].start_date <= clock
                       /\ db.discount[i].end_date > clock}
    IN IF current = {} THEN None
       ELSE Some(SetMax({db.discount[i].percentage : i \in current}))

\* First query of find_discounts_for_client:
\* ORDER BY percentage DESC LIMIT 1 over the product's current discounts.
highest_discount(db, clock, product_id) ==
    LET current == {i \in 1..Len(db.discount) :
                       /\ db.discount[i].discounted_products = product_id
                       /\ ~db.discount[i].is_deleted
                       /\ db.discount[i].start_date <= clock
                       /\ db.discount[i].end_date > clock}
    IN IF current = {} THEN None
       ELSE Some(SetMax({db.discount[i].percentage : i \in current}))

\* The second query without the window.
current_contract_count_any_time(db, clock, client_id) ==
    Cardinality({i \in 1..Len(db.contract) :
                    /\ contract_client_id(db.contract[i]) = client_id.value
                    /\ ~db.contract[i].is_deleted})

\* Second query of find_discounts_for_client: COUNT(*) of the client's
\* current contracts.
current_contract_count(db, clock, client_id) ==
    Cardinality({i \in 1..Len(db.contract) :
                    /\ contract_client_id(db.contract[i]) = client_id.value
                    /\ ~db.contract[i].is_deleted
                    /\ db.contract[i].start_date <= clock
                    /\ db.contract[i].end_date > clock})

additional_discount(count) == IF count >= 1 THEN Some(5) ELSE None

\* The match at the end of find_discounts_for_client.
final_discount(highest, additional) ==
    IF highest # None
    THEN (IF additional # None THEN highest[1] + additional[1] ELSE highest[1])
    ELSE (IF additional # None THEN additional[1] ELSE 0)

\* SELECT price, and BigDecimal::to_f64 of it: the prices of the catalogue
\* are whole units, which f64 holds as they are.
get_price_for_product(db, product_id) == db.software[product_id]

\* What the f64 value of price * (1.0 - discount) misses the decimal product
\* by, for the prices 1000.00 and 1200.00 and the discounts 0.05, 0.10,
\* 0.10 + 0.05, 0.90, 0.90 + 0.05, 1.00 and 1.00 + 0.05 of this catalogue:
\*     1000.0 * (1.0 - 0.9)          =  99.99999999999997
\*     1000.0 * (1.0 - (0.9 + 0.05)) =  49.999999999999936
\*     1000.0 * (1.0 - (1.0 + 0.05)) = -50.00000000000004
\*     1200.0 * (1.0 - 0.9)          = 119.99999999999997
\*     1200.0 * (1.0 - (0.9 + 0.05)) =  59.99999999999992
\*     1200.0 * (1.0 - (1.0 + 0.05)) = -60.00000000000006
\* each below the decimal product, and the decimal product itself for the
\* other discounts.
F64RoundingError(price, disc) == IF disc \in {90, 95, 105} THEN -1 ELSE 0

\* price * (1.0 - discount) in create_contract, in f64.
final_price(price, disc) ==
    (price * (100 - disc)) \div 100 + F64RoundingError(price, disc)

\* The lookup by id alone.
get_contract_by_id_any_owner(db, client_id, contract_id) ==
    LET found == {i \in 1..Len(db.contract) : db.contract[i].id = contract_id}
    IN IF found = {} THEN None ELSE Some(db.contract[CHOOSE i \in found : TRUE])

get_contract_by_id(db, client_id, contract_id) ==
    LET found == {i \in 1..Len(db.contract) :
                     /\ db.contract[i].id = contract_id
                     /\ OwnerColumn(db.contract[i], client_id) = client_id.value
                     /\ ~db.contract[i].is_deleted}
    IN IF found = {} THEN None ELSE Some(db.contract[CHOOSE i \in found : TRUE])

get_payments_for_contract(db, contract_id) ==
    SelectSeq(db.payment, LAMBDA p : p.contract_id = contract_id)

RECURSIVE SumAmounts(_)
SumAmounts(rows) ==
    IF rows = <<>> THEN 0 ELSE Head(rows).amount + SumAmounts(Tail(rows))

check_outstanding_payments(db, contract_id) ==
    SumAmounts(get_payments_for_contract(db, contract_id))

----------------------------------------------------------------------------
(* Store writes (db/mod.rs) *)

\* contract.is_paid is not among the inserted columns: the column default.
DefaultIsPaid == FALSE

create_contract_in_db(db, price, product_id, client_id, start_date, end_date, years_supported) ==
    [db EXCEPT !.contract = Append(@,
        [id |-> Len(@) + 1,
         contract_type |-> IF client_id.type = "individual" THEN "private" ELSE "corporate",
         personal_client_pesel |-> IF client_id.type = "individual" THEN client_id.value ELSE "",
         company_client_krs |-> IF client_id.type = "individual" THEN "" ELSE client_id.value,
         product_id |-> product_id,
         price |-> price,
         start_date |-> start_date,
         end_date |-> end_date,
         years_supported |-> years_supported,
         is_signed |-> FALSE,
         is_paid |-> DefaultIsPaid,
         is_deleted |-> FALSE])]

\* The insert writing over the newest row of the ledger.
create_payment_record_in_db_overwrites(db, contract_id, amount) ==
    IF db.payment = <<>>
    THEN [db EXCEPT !.payment = Append(@,
             [id |-> Len(@) + 1, contract_id |-> contract_id,
              amount |-> amount, is_deleted |-> FALSE])]
    ELSE [db EXCEPT !.payment[Len(db.payment)] =
             [id |-> Len(db.payment), contract_id |-> contract_id,
              amount |-> amount, is_deleted |-> FALSE]]

create_payment_record_in_db(db, contract_id, amount) ==
    [db EXCEPT !.payment = Append(@,
        [id |-> Len(@) + 1, contract_id |-> contract_id,
         amount |-> amount, is_deleted |-> FALSE])]

pay_for_contract(db, contract_id, client_id, amount) ==
    create_payment_record_in_db(db, contract_id, amount)

\* The update flipping is_paid.
handle_full_payment_toggles(db, contract_id, client_id) ==
    LET rows == db.contract
    IN [db EXCEPT !.contract = [i \in 1..Len(rows) |->
           IF /\ rows[i].id = contract_id
              /\ OwnerColumn(rows[i], client_id) = client_id.value
           THEN [rows[i] EXCEPT !.is_paid = ~rows[i].is_paid]
           ELSE rows[i]]]

\* The update also rewriting the price of the paid contract.
handle_full_payment_reprices(db, contract_id, client_id) ==
    LET rows == db.contract
    IN [db EXCEPT !.contract = [i \in 1..Len(rows) |->
           IF /\ rows[i].id = contract_id
              /\ OwnerColumn(rows[i], client_id) = client_id.value
           THEN [rows[i] EXCEPT !.is_paid = TRUE, !.price = 0]
           ELSE rows[i]]]

handle_full_payment(db, contract_id, client_id) ==
    LET rows == db.contract
    IN [db EXCEPT !.contract = [i \in 1..Len(rows) |->
           IF /\ rows[i].id = contract_id
              /\ OwnerColumn(rows[i], client_id) = client_id.value
           THEN [rows[i] EXCEPT !.is_paid = TRUE]
           ELSE rows[i]]]

----------------------------------------------------------------------------
(* handler::create_contract, one poll per store access *)

PurchaseRequest(client_id, product_id, terms) ==
    With(Idle, "cc_has_contract",
         [client_id |-> client_id, product_id |-> product_id,
          start_date |-> terms[1], end_date |-> terms[2],
          years_supported |-> terms[3]])

cc_has_contract(db, clock, l) ==
    IF check_if_client_has_contract_for_product(db, l.client_id, l.product_id)
    THEN Return(db, BAD_REQUEST, "Client already has contract for this product")
    ELSE Pending(db, With(l, "cc_exist", NoLocals))

\* The existence check looking at the product only.
cc_exist_ignores_client(db, clock, l) ==
    LET e == check_product_and_client_exist(db, l.product_id, l.client_id)
    IN IF ~e[1] THEN Return(db, BAD_REQUEST, "Product does not exist")
       ELSE Pending(db, With(l, "cc_discount", NoLocals))

cc_exist(db, clock, l) ==
    LET e == check_product_and_client_exist(db, l.product_id, l.client_id)
    IN IF ~e[1] THEN Return(db, BAD_REQUEST, "Product does not exist")
       ELSE IF ~e[2] THEN Return(db, BAD_REQUEST, "Client does not exist")
       ELSE Pending(db, With(l, "cc_discount", NoLocals))

\* find_discounts_for_client, first query.
cc_discount(db, clock, l) ==
    Pending(db, With(l, "cc_count",
        [highest_discount |-> highest_discount(db, clock, l.product_id)]))

\* find_discounts_for_client, second query and the final match.
cc_count(db, clock, l) ==
    Pending(db, With(l, "cc_price",
        [discount |-> final_discount(
             l.highest_discount,
             additional_discount(current_contract_count(db, clock, l.client_id)))]))

cc_price(db, clock, l) ==
    Pending(db, With(l, "cc_insert",
        [price |-> get_price_for_product(db, l.product_id)]))

cc_insert(db, clock, l) ==
    Return(create_contract_in_db(db, final_price(l.price, l.discount),
                                 l.product_id, l.client_id, l.start_date,
                                 l.end_date, l.years_supported),
           CREATED, "Contract created")

----------------------------------------------------------------------------
(* handler::create_payment, one poll per store access *)

PaymentRequest(variant, client_id, contract_id, amount) ==
    With(Idle, "cp_client",
         [variant |-> variant, client_id |-> client_id,
          contract_id |-> contract_id, amount |-> amount])

RenewedBody ==
    "Missed payment, a new contract has been created. Any outstanding payments have been returned to you."

\* The payment handler without the client check.
cp_client_admits_everyone(db, clock, l) ==
    Pending(db, With(l, "cp_contract", NoLocals))

cp_client(db, clock, l) ==
    IF ~check_if_client_exists(db, l.client_id)
    THEN Return(db, BAD_REQUEST, "Client does not exist")
    ELSE Pending(db, With(l, "cp_contract", NoLocals))

\* The dispatch with the expiry check before the paid check.
cp_contract_expiry_first(db, clock, l) ==
    LET r == get_contract_by_id(db, l.client_id, l.contract_id)
    IN IF r = None
       THEN Return(db, BAD_REQUEST,
                   "Contract does not exist or does not belong to this client")
       ELSE IF r[1].end_date <= clock
       THEN Pending(db, With(l, "renew_outstanding", [contract |-> r[1]]))
       ELSE IF r[1].is_paid
       THEN Return(db, BAD_REQUEST, "Contract is already paid")
       ELSE IF l.variant = "Installments"
       THEN Pending(db, With(l, "inst_outstanding", [contract |-> r[1]]))
       ELSE IF l.amount # r[1].price
       THEN Return(db, BAD_REQUEST, "Amount does not match contract price")
       ELSE Pending(db, With(l, "single_pay", [contract |-> r[1]]))

\* The dispatch without the paid check.
cp_contract_ignores_paid(db, clock, l) ==
    LET r == get_contract_by_id(db, l.client_id, l.contract_id)
    IN IF r = None
       THEN Return(db, BAD_REQUEST,
                   "Contract does not exist or does not belong to this client")
       ELSE IF r[1].end_date <= clock
       THEN Pending(db, With(l, "renew_outstanding", [contract |-> r[1]]))
       ELSE IF l.variant = "Installments"
       THEN Pending(db, With(l, "inst_outstanding", [contract |-> r[1]]))
       ELSE IF l.amount # r[1].price
       THEN Return(db, BAD_REQUEST, "Amount does not match contract price")
       ELSE Pending(db, With(l, "single_pay", [contract |-> r[1]]))

\* The dispatch letting a SinglePayment of any amount through.
cp_contract_accepts_any_amount(db, clock, l) ==
    LET r == get_contract_by_id(db, l.client_id, l.contract_id)
    IN IF r = None
       THEN Return(db, BAD_REQUEST,
                   "Contract does not exist or does not belong to this client")
       ELSE IF r[1].is_paid
       THEN Return(db, BAD_REQUEST, "Contract is already paid")
       ELSE IF r[1].end_date <= clock
       THEN Pending(db, With(l, "renew_outstanding", [contract |-> r[1]]))
       ELSE IF l.variant = "Installments"
       THEN Pending(db, With(l, "inst_outstanding", [contract |-> r[1]]))
       ELSE Pending(db, With(l, "single_pay", [contract |-> r[1]]))

\* get_contract_by_id; the paid check, the expiry check against Utc::now()
\* and the dispatch on the request variant follow without a store access.
cp_contract(db, clock, l) ==
    LET r == get_contract_by_id(db, l.client_id, l.contract_id)
    IN IF r = None
       THEN Return(db, BAD_REQUEST,
                   "Contract does not exist or does not belong to this client")
       ELSE IF r[1].is_paid
       THEN Return(db, BAD_REQUEST, "Contract is already paid")
       ELSE IF r[1].end_date <= clock
       THEN Pending(db, With(l, "renew_outstanding", [contract |-> r[1]]))
       ELSE IF l.variant = "Installments"
       THEN Pending(db, With(l, "inst_outstanding", [contract |-> r[1]]))
       ELSE IF l.amount # r[1].price
       THEN Return(db, BAD_REQUEST, "Amount does not match contract price")
       ELSE Pending(db, With(l, "single_pay", [contract |-> r[1]]))

\* The renewal taking the ledger for empty.
renew_outstanding_reads_nothing(db, clock, l) ==
    Pending(db, With(l, "renew_refund", [outstanding_payments |-> 0]))

renew_outstanding(db, clock, l) ==
    Pending(db, With(l, "renew_refund",
        [outstanding_payments |-> check_outstanding_payments(db, l.contract_id)]))

\* The refund of what is left to pay instead of what was paid.
renew_refund_of_remainder(db, clock, l) ==
    Pending(create_payment_record_in_db(db, l.contract_id,
                (l.contract.price - l.outstanding_payments) * (-1)),
            With(l, "renew_contract", NoLocals))

\* The refund row carrying the amount of the request as well.
renew_refund_adds_amount(db, clock, l) ==
    Pending(create_payment_record_in_db(db, l.contract_id,
                l.outstanding_payments * (-1) + l.amount),
            With(l, "renew_contract", NoLocals))

renew_refund(db, clock, l) ==
    Pending(create_payment_record_in_db(db, l.contract_id,
                                        l.outstanding_payments * (-1)),
            With(l, "renew_contract", NoLocals))

\* The new contract starting at the time of the renewal.
renew_contract_restarts_window(db, clock, l) ==
    Return(create_contract_in_db(db, l.contract.price, l.contract.product_id,
                                 l.client_id, clock,
                                 l.contract.end_date, l.contract.years_supported),
           CREATED, RenewedBody)

\* contract.price.to_f64() and BigDecimal::from_f64 in create_contract_in_db
\* give back the stored price: every stored price is the image of an f64.

\* The new contract given a window that ends after the renewal.
renew_contract_extends_window(db, clock, l) ==
    Return(create_contract_in_db(db, l.contract.price, l.contract.product_id,
                                 l.client_id, l.contract.start_date,
                                 clock + 1, l.contract.years_supported),
           CREATED, RenewedBody)

renew_contract(db, clock, l) ==
    Return(create_contract_in_db(db, l.contract.price, l.contract.product_id,
                                 l.client_id, l.contract.start_date,
                                 l.contract.end_date, l.contract.years_supported),
           CREATED, RenewedBody)

inst_outstanding(db, clock, l) ==
    LET outstanding == check_outstanding_payments(db, l.contract_id)
    IN IF l.amount > outstanding
       THEN Return(db, BAD_REQUEST, "Amount is greater than outstanding payments")
       ELSE Pending(db, With(l, "inst_pay", [outstanding_payments |-> outstanding]))

inst_pay(db, clock, l) ==
    LET paid == pay_for_contract(db, l.contract_id, l.client_id, l.amount)
    IN IF l.amount = l.outstanding_payments
       THEN Pending(paid, With(l, "inst_full", NoLocals))
       ELSE Return(paid, OK, "Payment successful")

inst_full(db, clock, l) ==
    Return(handle_full_payment(db, l.contract_id, l.client_id),
           OK, "Payment successful")

single_pay(db, clock, l) ==
    Pending(pay_for_contract(db, l.contract_id, l.client_id, l.amount),
            With(l, "single_full", NoLocals))

\* The SinglePayment answering without the update of the contract.
single_full_skips_update(db, clock, l) == Return(db, OK, "Payment successful")

single_full(db, clock, l) ==
    Return(handle_full_payment(db, l.contract_id, l.client_id),
           OK, "Payment successful")

----------------------------------------------------------------------------
(* handler::delete_client *)

DeleteRequest(client_id) == With(Idle, "dc_update", [client_id |-> client_id])

\* The handler soft-deleting companies like individuals.
dc_update_deletes_company(db, clock, l) ==
    IF l.client_id.type = "individual"
    THEN Return([db EXCEPT !.personal_client =
                    {IF r.pesel = l.client_id.value
                     THEN [r EXCEPT !.is_deleted = TRUE] ELSE r : r \in @}],
                OK, "Client deleted")
    ELSE Return([db EXCEPT !.company_client =
                    {IF r.krs = l.client_id.value
                     THEN [r EXCEPT !.is_deleted = TRUE] ELSE r : r \in @}],
                OK, "Client deleted")

dc_update(db, clock, l) ==
    IF l.client_id.type = "individual"
    THEN Return([db EXCEPT !.personal_client =
                    {IF r.pesel = l.client_id.value
                     THEN [r EXCEPT !.is_deleted = TRUE] ELSE r : r \in @}],
                OK, "Client deleted")
    ELSE Return(db, BAD_REQUEST,
                "Failed to delete client: coroprate clients are unable to be deleted")

----------------------------------------------------------------------------
(* Running a handler *)

\* The handler's code from the store access it is suspended at up to the
\* next one.
Poll(db, clock, l) ==
    CASE l.pc = "cc_has_contract" -> cc_has_contract(db, clock, l)
      [] l.pc = "cc_exist" -> cc_exist(db, clock, l)
      [] l.pc = "cc_discount" -> cc_discount(db, clock, l)
      [] l.pc = "cc_count" -> cc_count(db, clock, l)
      [] l.pc = "cc_price" -> cc_price(db, clock, l)
      [] l.pc = "cc_insert" -> cc_insert(db, clock, l)
      [] l.pc = "cp_client" -> cp_client(db, clock, l)
      [] l.pc = "cp_contract" -> cp_contract(db, clock, l)
      [] l.pc = "renew_outstanding" -> renew_outstanding(db, clock, l)
      [] l.pc = "renew_refund" -> renew_refund(db, clock, l)
      [] l.pc = "renew_contract" -> renew_contract(db, clock, l)
      [] l.pc = "inst_outstanding" -> inst_outstanding(db, clock, l)
      [] l.pc = "inst_pay" -> inst_pay(db, clock, l)
      [] l.pc = "inst_full" -> inst_full(db, clock, l)
      [] l.pc = "single_pay" -> single_pay(db, clock, l)
      [] l.pc = "single_full" -> single_full(db, clock, l)
      [] l.pc = "dc_update" -> dc_update(db, clock, l)

\* The handler run from l until it returns, with no other task in between.
RECURSIVE Run(_, _, _)
Run(db, clock, l) ==
    LET r == Poll(db, clock, l)
    IN IF r.task.pc = "idle" THEN r ELSE Run(r.db, clock, r.task)

SetStore(db) ==
    /\ personal_client' = db.personal_client
    /\ company_client' = db.company_client
    /\ software' = db.software
    /\ discount' = db.discount
    /\ contract' = db.contract
    /\ payment' = db.payment

\* Task t takes the outcome r of a poll.
Take(t, r) ==
    /\ SetStore(r.db)
    /\ task' = [task EXCEPT ![t] = r.task]
    /\ response' = IF r.task.pc = "idle" THEN r.reply ELSE response
    /\ UNCHANGED now

\* Task t, suspended at a store access, is polled.
Resume(t) == Take(t, Poll(Store, now, task[t]))

\* A request arrives at the idle task t, which runs up to its first
\* suspension.
Arrive(t, request) ==
    /\ task[t].pc = "idle"
    /\ Take(t, Poll(Store, now, request))

\* A request is served from arrival to response.
Serve(request) ==
    /\ \A t \in Tasks : task[t].pc = "idle"
    /\ LET r == Run(Store, now, request)
       IN /\ SetStore(r.db)
          /\ response' = r.reply
    /\ UNCHANGED <<now, task>>

\* A request is admitted only while the tables have room for the rows that
\* it and the requests in flight may still insert: a purchase one contract
\* row; a payment one payment row and, until it is past the expiry check
\* or has inserted it, one contract row.
ContractsInFlight ==
    Cardinality({t \in Tasks :
        task[t].pc \in {"cc_exist", "cc_discount", "cc_count", "cc_price",
                        "cc_insert", "cp_contract", "renew_outstanding",
                        "renew_refund", "renew_contract"}})
PaymentsInFlight ==
    Cardinality({t \in Tasks :
        task[t].pc \in {"cp_contract", "renew_outstanding", "renew_refund",
                        "inst_outstanding", "inst_pay", "single_pay"}})
RoomForContract == Len(contract) + ContractsInFlight < MaxContracts
RoomForPayment == Len(payment) + PaymentsInFlight < MaxPayments

----------------------------------------------------------------------------
(* Requests *)

\* Client ids a request may carry: p1 and k1 are in the store, p2 and k2
\* never were.
ClientIds == {Individual("p1"), Company("k1"), Individual("p2")}
DeleteClientIds == ClientIds \cup {Company("k2")}

\* (start_date, end_date, years_supported) of a purchase request.  The
\* window of TermsC has ended when the request is made: the handler does
\* not look at the dates.
TermsA == <<0, 1, 1>>
TermsB == <<1, 2, 2>>
TermsC == <<-1, 0, 1>>

\* The purchase requests <<client_id, product_id, terms>>.  Products 1 and
\* 2 are in the store, 3 is not.
PurchaseRequests ==
    {<<Individual("p1"), 1, TermsA>>, <<Individual("p1"), 2, TermsA>>,
     <<Individual("p1"), 2, TermsB>>, <<Individual("p1"), 3, TermsA>>,
     <<Company("k1"), 1, TermsA>>, <<Individual("p2"), 1, TermsA>>,
     <<Individual("p1"), 1, TermsC>>}

\* Contract ids a payment request may carry: the rows and one id beyond.
ContractIds == 1..(Len(contract) + 1)

\* Amounts a payment request may carry: a refund, nothing, a part, and the
\* price of the contract it names.
BaseAmounts == {Units(-100), Units(0), Units(100)}
AmountsFor(contract_id) ==
    BaseAmounts \cup
        (IF contract_id \in 1..Len(contract) THEN {contract[contract_id].price} ELSE {})

\* The <<contract_id, amount>> of the payment requests.
Payments == UNION {{<<c, a>> : a \in AmountsFor(c)} : c \in ContractIds}

Variants == {"Installments", "SinglePayment"}

\* The catalogue as it is installed, and the price an operator may change
\* a product to.
InitSoftware == [p \in {1, 2} |-> Units(1000)]
InitDiscount ==
    <<[discounted_products |-> 1, percentage |-> 10,
       start_date |-> 0, end_date |-> 2, is_deleted |-> FALSE],
      [discounted_products |-> 1, percentage |-> 100,
       start_date |-> 1, end_date |-> 3, is_deleted |-> FALSE],
      [discounted_products |-> 2, percentage |-> 90,
       start_date |-> 0, end_date |-> 3, is_deleted |-> FALSE]>>
NewPrices == {Units(1200)}

----------------------------------------------------------------------------
(* The environment: the clock, and an operator editing the catalogue *)

Tick ==
    /\ now < MaxNow
    /\ now' = now + 1
    /\ UNCHANGED <<personal_client, company_client, software, discount,
                   contract, payment, task, response>>

\* The operator makes one edit to the installed catalogue: a product gets a
\* new price, or a discount is soft-deleted.
Pristine == software = InitSoftware /\ discount = InitDiscount

UpdateSoftwarePrice(product_id, price) ==
    /\ Pristine
    /\ software' = [software EXCEPT ![product_id] = price]
    /\ UNCHANGED <<personal_client, company_client, discount, contract, payment,
                   now, task, response>>

DeleteDiscount(i) ==
    /\ Pristine
    /\ discount' = [discount EXCEPT ![i].is_deleted = TRUE]
    /\ UNCHANGED <<personal_client, company_client, software, contract, payment,
                   now, task, response>>

----------------------------------------------------------------------------
(* Requests served one at a time *)

create_contract(client_id, product_id, terms) ==
    /\ RoomForContract
    /\ Serve(PurchaseRequest(client_id, product_id, terms))

create_payment(variant, client_id, contract_id, amount) ==
    /\ RoomForContract
    /\ RoomForPayment
    /\ Serve(PaymentRequest(variant, client_id, contract_id, amount))

delete_client(client_id) ==
    /\ client_id \in DeleteClientIds
    /\ Serve(DeleteRequest(client_id))

----------------------------------------------------------------------------
(* Requests served by interleaving tasks *)

create_contract_arrives(t, client_id, product_id, terms) ==
    /\ RoomForContract
    /\ Arrive(t, PurchaseRequest(client_id, product_id, terms))

create_payment_arrives(t, variant, client_id, contract_id, amount) ==
    /\ RoomForContract
    /\ RoomForPayment
    /\ Arrive(t, PaymentRequest(variant, client_id, contract_id, amount))

delete_client_arrives(t, client_id) ==
    /\ client_id \in DeleteClientIds
    /\ Arrive(t, DeleteRequest(client_id))

----------------------------------------------------------------------------
(* Specifications *)

Init ==
    /\ personal_client = {[pesel |-> "p1", is_deleted |-> FALSE]}
    /\ company_client = {[krs |-> "k1", is_deleted |-> FALSE]}
    /\ software = InitSoftware
    /\ discount = InitDiscount
    /\ contract = <<>>
    /\ payment = <<>>
    /\ now = 0
    /\ task = [t \in Tasks |-> Idle]
    /\ response = NoResponse

NextSeq ==
    \/ \E r \in PurchaseRequests : create_contract(r[1], r[2], r[3])
    \/ \E variant \in Variants, client_id \in ClientIds, p \in Payments :
           create_payment(variant, client_id, p[1], p[2])
    \/ \E client_id \in DeleteClientIds : delete_client(client_id)
    \/ Tick

SpecSeq == Init /\ [][NextSeq]_vars

\* The requests of the interleaved specification: one client, one product.
RacePurchases == {<<Individual("p1"), 1, TermsA>>}
RaceClientIds == {Individual("p1")}
RaceAmountsFor(contract_id) ==
    {Units(0)} \cup (IF contract_id \in 1..Len(contract)
                     THEN {contract[contract_id].price} ELSE {})
RacePayments == UNION {{<<c, a>> : a \in RaceAmountsFor(c)} : c \in ContractIds}

At_cc_exist(t) ==
    /\ task[t].pc = "cc_exist"
    /\ Resume(t)

At_cc_discount(t) ==
    /\ task[t].pc = "cc_discount"
    /\ Resume(t)

At_cc_count(t) ==
    /\ task[t].pc = "cc_count"
    /\ Resume(t)

At_cc_price(t) ==
    /\ task[t].pc = "cc_price"
    /\ Resume(t)

At_cc_insert(t) ==
    /\ task[t].pc = "cc_insert"
    /\ Resume(t)

At_cp_contract(t) ==
    /\ task[t].pc = "cp_contract"
    /\ Resume(t)

At_renew_outstanding(t) ==
    /\ task[t].pc = "renew_outstanding"
    /\ Resume(t)

At_renew_refund(t) ==
    /\ task[t].pc = "renew_refund"
    /\ Resume(t)

At_renew_contract(t) ==
    /\ task[t].pc = "renew_contract"
    /\ Resume(t)

At_inst_outstanding(t) ==
    /\ task[t].pc = "inst_outstanding"
    /\ Resume(t)

At_inst_pay(t) ==
    /\ task[t].pc = "inst_pay"
    /\ Resume(t)

At_inst_full(t) ==
    /\ task[t].pc = "inst_full"
    /\ Resume(t)

At_single_pay(t) ==
    /\ task[t].pc = "single_pay"
    /\ Resume(t)

At_single_full(t) ==
    /\ task[t].pc = "single_full"
    /\ Resume(t)


Next ==
    \/ \E t \in Tasks, r \in RacePurchases :
           create_contract_arrives(t, r[1], r[2], r[3])
    \/ \E t \in Tasks, variant \in Variants, client_id \in RaceClientIds,
           p \in RacePayments :
           create_payment_arrives(t, variant, client_id, p[1], p[2])
    \/ \E t \in Tasks, client_id \in RaceClientIds : delete_client_arrives(t, client_id)
    \/ \E t \in Tasks : At_cc_exist(t)
    \/ \E t \in Tasks : At_cc_discount(t)
    \/ \E t \in Tasks : At_cc_count(t)
    \/ \E t \in Tasks : At_cc_price(t)
    \/ \E t \in Tasks : At_cc_insert(t)
    \/ \E t \in Tasks : At_cp_contract(t)
    \/ \E t \in Tasks : At_renew_outstanding(t)
    \/ \E t \in Tasks : At_renew_refund(t)
    \/ \E t \in Tasks : At_renew_contract(t)
    \/ \E t \in Tasks : At_inst_outstanding(t)
    \/ \E t \in Tasks : At_inst_pay(t)
    \/ \E t \in Tasks : At_inst_full(t)
    \/ \E t \in Tasks : At_single_pay(t)
    \/ \E t \in Tasks : At_single_full(t)
    \/ Tick
    \/ \E product_id \in DOMAIN software, price \in NewPrices :
           UpdateSoftwarePrice(product_id, price)
    \/ \E i \in 1..Len(discount) : DeleteDiscount(i)

Spec == Init /\ [][Next]_vars

----------------------------------------------------------------------------
(* Vocabulary of the properties, stated on the tables themselves *)

RowClient(row) ==
    IF row.contract_type = "private"
    THEN Individual(row.personal_client_pesel)
    ELSE Company(row.company_client_krs)

LiveContracts(client_id, product_id) ==
    {i \in 1..Len(contract) :
        /\ RowClient(contract[i]) = client_id
        /\ contract[i].product_id = product_id
        /\ ~contract[i].is_deleted}

ClientInStore(client_id) ==
    \/ [pesel |-> client_id.value, is_deleted |-> FALSE] \in personal_client
          /\ client_id.type = "individual"
    \/ [krs |-> client_id.value, is_deleted |-> FALSE] \in company_client
          /\ client_id.type = "company"

ProductInStore(product_id) == product_id \in DOMAIN software

NotFoundBodies == {"Product does not exist", "Client does not exist"}
ConflictBody == "Client already has contract for this product"

\* The base discount of a product: the highest percentage among its
\* non-deleted discounts whose window contains now, 0 without one.
BaseDiscountOf(product_id) ==
    LET pcts == {discount[i].percentage : i \in
                    {j \in 1..Len(discount) :
                        /\ discount[j].discounted_products = product_id
                        /\ ~discount[j].is_deleted
                        /\ discount[j].start_date <= now
                        /\ now < discount[j].end_date}}
    IN IF pcts = {} THEN 0 ELSE CHOOSE x \in pcts : \A y \in pcts : x >= y

\* The recurring-client bonus: 5 when the client has a non-deleted contract
\* whose window contains now.
BonusOf(client_id) ==
    IF \E i \in 1..Len(contract) :
           /\ RowClient(contract[i]) = client_id
           /\ ~contract[i].is_deleted
           /\ contract[i].start_date <= now
           /\ now < contract[i].end_date
    THEN 5 ELSE 0

Clamp(x, lo, hi) == IF x < lo THEN lo ELSE IF x > hi THEN hi ELSE x

\* The sum of the non-deleted payment rows of a contract, and what is left
\* to pay.
RECURSIVE LedgerSumUpTo(_, _)
LedgerSumUpTo(contract_id, n) ==
    IF n = 0 THEN 0
    ELSE LedgerSumUpTo(contract_id, n - 1)
         + (IF payment[n].contract_id = contract_id /\ ~payment[n].is_deleted
            THEN payment[n].amount ELSE 0)

LedgerSum(contract_id) == LedgerSumUpTo(contract_id, Len(payment))
Outstanding(contract_id) == contract[contract_id].price - LedgerSum(contract_id)

\* The client may pay the contract: it is the client's, the client is in
\* the store, and the contract is neither deleted nor paid and ends after
\* now.
Payable(client_id, contract_id) ==
    /\ contract_id \in 1..Len(contract)
    /\ ClientInStore(client_id)
    /\ RowClient(contract[contract_id]) = client_id
    /\ ~contract[contract_id].is_deleted
    /\ ~contract[contract_id].is_paid
    /\ now < contract[contract_id].end_date

NewPaymentRows == {payment'[k] : k \in (Len(payment) + 1)..Len(payment')}

----------------------------------------------------------------------------
(* Properties *)

\* C1: in every reachable state every (client, product_id) pair has at most
\* one contract with is_deleted = false.
C1_OneLiveContractPerPair ==
    \A i, j \in 1..Len(contract) :
        (/\ RowClient(contract[i]) = RowClient(contract[j])
         /\ contract[i].product_id = contract[j].product_id
         /\ ~contract[i].is_deleted
         /\ ~contract[j].is_deleted) => i = j

\* C2: of two interleaved create_contract calls for the same (client,
\* product_id) one inserts and the other is rejected: a create_contract
\* task never inserts a row while the pair has a non-deleted contract.
C2_RacingCreateInsertsOnce ==
    [][\A t \in Tasks :
         (task[t].pc = "cc_insert" /\ Len(contract') > Len(contract))
             => LiveContracts(task[t].client_id, task[t].product_id) = {}]_vars

\* C3: create_contract for a pair that already has a non-deleted contract
\* is rejected with "Client already has contract for this product" and
\* leaves the contract table as it is.
C3_DuplicateRejected ==
    [][\A r \in PurchaseRequests :
         (LiveContracts(r[1], r[2]) # {} /\ create_contract(r[1], r[2], r[3]))
             => /\ response' = [status |-> BAD_REQUEST, body |-> ConflictBody]
                /\ contract' = contract]_vars

C3_Witness ==
    /\ response = [status |-> BAD_REQUEST, body |-> ConflictBody]
    /\ \E r \in PurchaseRequests : LiveContracts(r[1], r[2]) # {}

\* C4, as claimed: create_contract is rejected with a NotFound-kind error
\* and inserts no row whenever the product or the client does not exist.
C4_MissingIsNotFound ==
    [][\A r \in PurchaseRequests :
         ((~ProductInStore(r[2]) \/ ~ClientInStore(r[1]))
             /\ create_contract(r[1], r[2], r[3]))
             => /\ response'.status = BAD_REQUEST
                /\ response'.body \in NotFoundBodies
                /\ contract' = contract]_vars

\* C4, amended: whenever the product or the client does not exist,
\* create_contract is rejected and inserts no row; the error is of the
\* NotFound kind when the pair has no non-deleted contract, and the
\* Conflict of the duplicate check when it has one.
C4_MissingIsRejected ==
    [][\A r \in PurchaseRequests :
         ((~ProductInStore(r[2]) \/ ~ClientInStore(r[1]))
             /\ create_contract(r[1], r[2], r[3]))
             => /\ response'.status = BAD_REQUEST
                /\ IF LiveContracts(r[1], r[2]) = {}
                   THEN response'.body \in NotFoundBodies
                   ELSE response'.body = ConflictBody
                /\ contract' = contract]_vars

\* A deleted client that holds a contract has just been refused another.
C4_Witness ==
    /\ ~ClientInStore(Individual("p1"))
    /\ contract # <<>>
    /\ \A i \in 1..Len(contract) : RowClient(contract[i]) = Individual("p1")
    /\ response.body = ConflictBody

\* C5: a successful create_contract appends exactly one contract row, for
\* the requested client, product and dates, unsigned, unpaid, not deleted,
\* priced product price * (1 - (base discount + bonus)).
C5_CreatedContract ==
    [][\A r \in PurchaseRequests :
         (create_contract(r[1], r[2], r[3]) /\ response'.status = CREATED)
             => /\ Len(contract') = Len(contract) + 1
                /\ SubSeq(contract', 1, Len(contract)) = contract
                /\ LET row == contract'[Len(contract')]
                   IN /\ RowClient(row) = r[1]
                      /\ row.product_id = r[2]
                      /\ row.start_date = r[3][1]
                      /\ row.end_date = r[3][2]
                      /\ row.years_supported = r[3][3]
                      /\ ~row.is_signed /\ ~row.is_paid /\ ~row.is_deleted
                      /\ row.price * 100 =
                            software[r[2]] * (100 - (BaseDiscountOf(r[2]) + BonusOf(r[1])))]_vars

\* C6: the discount applied to the product price of every purchase is
\* clamp(base + bonus, 0, 1): the stored price is the product price less
\* that discount, to the grain.
C6_DiscountClamped ==
    [][\A r \in PurchaseRequests :
         (create_contract(r[1], r[2], r[3]) /\ response'.status = CREATED)
             => LET clamped == Clamp(BaseDiscountOf(r[2]) + BonusOf(r[1]), 0, 100)
                    exact == (software[r[2]] * (100 - clamped)) \div 100
                IN contract'[Len(contract')].price \in (exact - 1)..(exact + 1)]_vars

\* C7: no step changes the stored price of an existing contract.
C7_PriceLocked ==
    [][/\ Len(contract') >= Len(contract)
       /\ \A i \in 1..Len(contract) : contract'[i].price = contract[i].price]_vars

\* A contract priced from the installed catalogue has been paid, and the
\* catalogue has since been edited.
C7_Witness ==
    /\ ~Pristine
    /\ \E i \in 1..Len(contract) : contract[i].is_paid
    /\ payment # <<>>

\* C8: an installment of a positive amount within the outstanding balance
\* of an unpaid, unexpired contract is accepted and recorded, and is_paid
\* becomes true exactly when it settles the balance.
C8_InstallmentsSettle ==
    [][\A client_id \in ClientIds, contract_id \in ContractIds :
         \A amount \in AmountsFor(contract_id) :
            (/\ create_payment("Installments", client_id, contract_id, amount)
             /\ Payable(client_id, contract_id)
             /\ 0 < amount
             /\ amount <= Outstanding(contract_id))
                => /\ response'.status = OK
                   /\ Len(payment') = Len(payment) + 1
                   /\ contract'[contract_id].is_paid = (amount = Outstanding(contract_id))]_vars

\* C9: an installment on an unpaid, unexpired contract is recorded if and
\* only if its amount does not exceed price - sum(payments); otherwise it
\* is rejected and nothing is recorded.
C9_InstallmentWithinOutstanding ==
    [][\A client_id \in ClientIds, contract_id \in ContractIds :
         \A amount \in AmountsFor(contract_id) :
            (/\ create_payment("Installments", client_id, contract_id, amount)
             /\ Payable(client_id, contract_id))
                => IF amount <= Outstanding(contract_id)
                   THEN /\ response'.status = OK
                        /\ Len(payment') = Len(payment) + 1
                   ELSE /\ response'.status = BAD_REQUEST
                        /\ payment' = payment]_vars

\* C10: every payment row recorded for a SinglePayment or Installment
\* request has a strictly positive amount.
C10_RecordedAmountsPositive ==
    [][\A variant \in Variants, client_id \in ClientIds, contract_id \in ContractIds :
         \A amount \in AmountsFor(contract_id) :
            (/\ create_payment(variant, client_id, contract_id, amount)
             /\ response'.body = "Payment successful")
                => \A row \in NewPaymentRows : row.amount > 0]_vars

C12_FullPriceSettles ==
    [][\A client_id \in ClientIds, p \in Payments :
         (/\ Payable(client_id, p[1])
          /\ p[2] = contract[p[1]].price
          /\ create_payment("SinglePayment", client_id, p[1], p[2]))
             => /\ response' = [status |-> OK, body |-> "Payment successful"]
                /\ Len(payment') = Len(payment) + 1
                /\ SubSeq(payment', 1, Len(payment)) = payment
                /\ payment'[Len(payment')].contract_id = p[1]
                /\ payment'[Len(payment')].amount = p[2]
                /\ ~payment'[Len(payment')].is_deleted
                /\ contract' = [contract EXCEPT ![p[1]].is_paid = TRUE]]_vars

\* A contract is paid by one payment row of its price.
C12_Witness ==
    /\ response = [status |-> OK, body |-> "Payment successful"]
    /\ \E i \in 1..Len(contract) :
           /\ contract[i].is_paid
           /\ contract[i].price > 0
           /\ \E k \in 1..Len(payment) :
                  /\ payment[k].contract_id = i
                  /\ payment[k].amount = contract[i].price

\* C13: in every reachable state the payment amounts of a contract with
\* is_paid = true sum to its price.
C13_PaidMeansSettled ==
    \A i \in 1..Len(contract) :
        contract[i].is_paid => LedgerSum(i) = contract[i].price

\* The contract has been renewed: a later row repeats its client and
\* product.
Renewed(i) ==
    \E j \in (i + 1)..Len(contract) :
        /\ RowClient(contract[j]) = RowClient(contract[i])
        /\ contract[j].product_id = contract[i].product_id

\* C14: with requests served one at a time, the payment amounts of a
\* contract that has not been renewed never sum to more than its price.
C14_NeverOverpaid ==
    \A i \in 1..Len(contract) :
        ~Renewed(i) => LedgerSum(i) <= contract[i].price

\* C15: however the store accesses of concurrent payment requests
\* interleave, the payment amounts of an unexpired contract never sum to
\* more than its price.
C15_RacingPaymentsNeverOverpay ==
    \A i \in 1..Len(contract) :
        now < contract[i].end_date => LedgerSum(i) <= contract[i].price

AlreadyPaid == [status |-> BAD_REQUEST, body |-> "Contract is already paid"]

\* C16, as claimed: every payment request of the owner of a contract with
\* is_paid = true, of either variant and any amount, is rejected with
\* "Contract is already paid" and changes neither table.
C16_PaidRejectsEveryRequest ==
    [][\A variant \in Variants, client_id \in ClientIds, p \in Payments :
         (/\ p[1] \in 1..Len(contract)
          /\ contract[p[1]].is_paid
          /\ RowClient(contract[p[1]]) = client_id
          /\ create_payment(variant, client_id, p[1], p[2]))
             => /\ response' = AlreadyPaid
                /\ payment' = payment
                /\ contract' = contract]_vars

\* C16, amended: every payment request naming a contract with
\* is_paid = true is rejected and changes neither table; the owner's is
\* rejected with "Contract is already paid" while the owner is in the
\* store, and with "Client does not exist" once the owner is deleted.
C16_PaidIsTerminal ==
    [][\A variant \in Variants, client_id \in ClientIds, p \in Payments :
         (/\ p[1] \in 1..Len(contract)
          /\ contract[p[1]].is_paid
          /\ create_payment(variant, client_id, p[1], p[2]))
             => /\ response'.status = BAD_REQUEST
                /\ payment' = payment
                /\ contract' = contract
                /\ RowClient(contract[p[1]]) = client_id =>
                      response'.body = IF ClientInStore(client_id)
                                       THEN AlreadyPaid.body
                                       ELSE "Client does not exist"]_vars

\* A request on a paid contract has been refused as already paid.
C16_Witness ==
    /\ response = AlreadyPaid
    /\ \E i \in 1..Len(contract) : contract[i].is_paid

\* C17: is_paid never goes from true to false.
C17_PaidStaysPaid ==
    [][\A i \in 1..Len(contract) :
         contract[i].is_paid => (i <= Len(contract') /\ contract'[i].is_paid)]_vars

\* A paid contract has outlived its window and a payment request on it.
C17_Witness ==
    /\ response.body = "Contract is already paid"
    /\ \E i \in 1..Len(contract) :
           contract[i].is_paid /\ contract[i].end_date <= now

\* The request reaches the renewal branch: the contract is the client's,
\* unpaid, and its window has ended.
Expired(client_id, contract_id) ==
    /\ contract_id \in 1..Len(contract)
    /\ ClientInStore(client_id)
    /\ RowClient(contract[contract_id]) = client_id
    /\ ~contract[contract_id].is_deleted
    /\ ~contract[contract_id].is_paid
    /\ contract[contract_id].end_date <= now

\* C18: a renewal leaves the old contract with is_deleted = true.
C18_RenewalDeletesOld ==
    [][\A variant \in Variants, client_id \in ClientIds, p \in Payments :
         (/\ Expired(client_id, p[1])
          /\ create_payment(variant, client_id, p[1], p[2]))
             => /\ p[1] <= Len(contract')
                /\ contract'[p[1]].is_deleted]_vars

\* C19: the renewal of an expired contract whose payments sum to p appends
\* exactly one payment row, for that contract and of amount -p, and leaves
\* the contract's ledger summing to 0.
C19_RenewalRefundsLedger ==
    [][\A variant \in Variants, client_id \in ClientIds, p \in Payments :
         (/\ Expired(client_id, p[1])
          /\ create_payment(variant, client_id, p[1], p[2]))
             => /\ Len(payment') = Len(payment) + 1
                /\ SubSeq(payment', 1, Len(payment)) = payment
                /\ payment'[Len(payment')].contract_id = p[1]
                /\ payment'[Len(payment')].amount = 0 - LedgerSum(p[1])
                /\ ~payment'[Len(payment')].is_deleted
                /\ LedgerSum(p[1])' = 0]_vars

\* A renewal has refunded a ledger that did not sum to 0.
C19_Witness ==
    /\ response.body = RenewedBody
    /\ Len(payment) > 1
    /\ LET refund == payment[Len(payment)]
       IN /\ refund.amount # 0
          /\ LedgerSum(refund.contract_id) = 0
          /\ \E k \in 1..(Len(payment) - 1) :
                /\ payment[k].contract_id = refund.contract_id
                /\ payment[k].amount = 0 - refund.amount

Lapsed(client_id, contract_id) ==
    /\ contract_id \in 1..Len(contract)
    /\ ClientInStore(client_id)
    /\ RowClient(contract[contract_id]) = client_id
    /\ ~contract[contract_id].is_deleted
    /\ ~contract[contract_id].is_paid
    /\ now > contract[contract_id].end_date

\* C21: a payment request on a lapsed, unpaid contract is answered with the
\* Renewed result, a success; the only payment row it appends is the refund
\* of the old ledger, whatever amount the request carries, so the amount is
\* recorded against neither contract; and neither the old nor the new
\* contract has is_paid set.
C21_RenewalRecordsNoPayment ==
    [][\A variant \in Variants, client_id \in ClientIds, p \in Payments :
         (/\ Lapsed(client_id, p[1])
          /\ create_payment(variant, client_id, p[1], p[2]))
             => /\ response' = [status |-> CREATED, body |-> RenewedBody]
                /\ Len(contract') = Len(contract) + 1
                /\ \A k \in (Len(payment) + 1)..Len(payment') :
                      /\ payment'[k].contract_id = p[1]
                      /\ payment'[k].amount = 0 - LedgerSum(p[1])
                /\ Len(payment') <= Len(payment) + 1
                /\ ~contract'[p[1]].is_paid
                /\ ~contract'[Len(contract')].is_paid]_vars

\* A lapsed contract has been renewed, and both contracts are unpaid.
C21_Witness ==
    /\ response = [status |-> CREATED, body |-> RenewedBody]
    /\ \E i, j \in 1..Len(contract) :
          /\ i < j
          /\ now > contract[i].end_date
          /\ RowClient(contract[j]) = RowClient(contract[i])
          /\ contract[j].product_id = contract[i].product_id
          /\ ~contract[i].is_paid
          /\ ~contract[j].is_paid
          /\ LedgerSum(i) = 0
          /\ LedgerSum(j) = 0

\* C22: the renewal is atomic: the step of a task that inserts the refund
\* row on the old contract also inserts the replacement contract, so that
\* no state shows the one without the other.
C22_RenewalAtomic ==
    [][\A t \in Tasks :
         (/\ task[t].pc = "renew_refund"
          /\ task'[t].pc # "renew_refund")
             => /\ Len(payment') = Len(payment) + 1
                /\ Len(contract') = Len(contract) + 1]_vars

ContractNotFound ==
    [status |-> BAD_REQUEST,
     body |-> "Contract does not exist or does not belong to this client"]

\* The response to the payment request on the tables db.
ReplyTo(db, variant, client_id, contract_id, amount) ==
    Run(db, now, PaymentRequest(variant, client_id, contract_id, amount)).reply

\* The tables with contract i soft-deleted.
WithDeleted(i) ==
    [Store EXCEPT !.contract = [contract EXCEPT ![i].is_deleted = TRUE]]

\* C23: a payment request naming a contract of another client is answered
\* exactly as the same request naming an id that no contract has, "contract
\* does not exist" when the client is in the store, and changes no payment
\* row and no contract row; and a soft-deleted contract would be answered
\* to its owner like an id that no contract has.
C23_ForeignContractIsMissing ==
    [][\A variant \in Variants, client_id \in ClientIds, p \in Payments :
         (/\ p[1] \in 1..Len(contract)
          /\ RowClient(contract[p[1]]) # client_id
          /\ create_payment(variant, client_id, p[1], p[2]))
             => /\ response' = ReplyTo(Store, variant, client_id,
                                       Len(contract) + 1, p[2])
                /\ ClientInStore(client_id) => response' = ContractNotFound
                /\ payment' = payment
                /\ contract' = contract
                /\ LET owner == RowClient(contract[p[1]])
                   IN ReplyTo(WithDeleted(p[1]), variant, owner, p[1], p[2])
                        = ReplyTo(Store, variant, owner, Len(contract) + 1, p[2])]_vars

\* A client in the store has been told that a contract does not exist
\* while the only contracts are another client's.
C23_Witness ==
    /\ response = ContractNotFound
    /\ Len(contract) > 0
    /\ \E client_id \in ClientIds :
          /\ ClientInStore(client_id)
          /\ \A i \in 1..Len(contract) : RowClient(contract[i]) # client_id

\* C24: a soft-deleted individual client stays deleted, and every
\* create_payment and create_contract naming a client that is deleted or
\* never existed is rejected and changes no contract row and no payment
\* row, also for the contracts the client holds: create_payment with
\* "Client does not exist", create_contract with the Conflict of the
\* duplicate check when the pair has a contract and with a NotFound-kind
\* error otherwise.
C24_DeletedClientRejected ==
    [][/\ \A r \in personal_client : r.is_deleted => r \in personal_client'
       /\ \A variant \in Variants, client_id \in ClientIds, p \in Payments :
            (/\ ~ClientInStore(client_id)
             /\ create_payment(variant, client_id, p[1], p[2]))
                => /\ response' = [status |-> BAD_REQUEST,
                                   body |-> "Client does not exist"]
                   /\ payment' = payment
                   /\ contract' = contract
       /\ \A r \in PurchaseRequests :
            (/\ ~ClientInStore(r[1])
             /\ create_contract(r[1], r[2], r[3]))
                => /\ response'.status = BAD_REQUEST
                   /\ response'.body \in NotFoundBodies \cup {ConflictBody}
                   /\ response'.body = ConflictBody <=> LiveContracts(r[1], r[2]) # {}
                   /\ payment' = payment
                   /\ contract' = contract]_vars

\* A deleted client holding a contract has been refused.
C24_Witness ==
    /\ response = [status |-> BAD_REQUEST, body |-> "Client does not exist"]
    /\ \E r \in personal_client :
          /\ r.is_deleted
          /\ \E i \in 1..Len(contract) :
                /\ RowClient(contract[i]) = Individual(r.pesel)
                /\ ~contract[i].is_paid

\* The prices of the catalogue, and the exact decimal products of one of
\* them and 1 - d for a discount d in hundredths.
CataloguePrices == {InitSoftware[p] : p \in DOMAIN InitSoftware} \cup NewPrices
DecimalPrices == {(P * (100 - d)) \div 100 : P \in CataloguePrices, d \in 0..105}

\* C25: prices are computed and stored as exact decimals: every stored
\* contract price is the exact decimal product of a catalogue price and one
\* minus a discount.
C25_PricesAreExactDecimals ==
    \A i \in 1..Len(contract) : contract[i].price \in DecimalPrices

CompanyNotDeletable ==
    [status |-> BAD_REQUEST,
     body |-> "Failed to delete client: coroprate clients are unable to be deleted"]

\* C26: delete_client for a company, in the store or not, is rejected with
\* a bad request and changes no client record; no company is ever
\* soft-deleted.
C26_CompanyNotDeleted ==
    [][/\ \A client_id \in DeleteClientIds :
            (/\ client_id.type = "company"
             /\ delete_client(client_id))
                => /\ response' = CompanyNotDeletable
                   /\ personal_client' = personal_client
                   /\ company_client' = company_client
       /\ \A r \in company_client' : ~r.is_deleted]_vars

\* The deletion of a company has been refused.
C26_Witness ==
    /\ response = CompanyNotDeletable
    /\ \A r \in company_client : ~r.is_deleted

\* C27: a payment request of the owner on an unpaid contract takes the
\* renewal exactly when now > end_date; at now = end_date it is processed
\* as a payment and creates no contract.
C27_RenewalOnlyAfterEnd ==
    [][\A variant \in Variants, client_id \in ClientIds, p \in Payments :
         (/\ p[1] \in 1..Len(contract)
          /\ ClientInStore(client_id)
          /\ RowClient(contract[p[1]]) = client_id
          /\ ~contract[p[1]].is_deleted
          /\ ~contract[p[1]].is_paid
          /\ create_payment(variant, client_id, p[1], p[2]))
             => /\ response'.body = RenewedBody <=> now > contract[p[1]].end_date
                /\ Len(contract') > Len(contract) <=> now > contract[p[1]].end_date]_vars

\* C28: the base discount resolved for the product of a purchase is the
\* highest percentage among the product's non-deleted discounts whose
\* window contains now, and 0 when there is none.
C28_BaseDiscountResolved ==
    [][\A t \in Tasks :
         (/\ task[t].pc = "cc_discount"
          /\ task'[t].pc = "cc_count")
             => final_discount(task'[t].highest_discount, None)
                   = BaseDiscountOf(task[t].product_id)]_vars

\* A purchase has resolved the base discount 0.10 while the product's 1.00
\* discount is deleted and another product has a current 0.90 discount.
C28_Witness ==
    /\ \E t \in Tasks :
          /\ task[t].pc = "cc_count"
          /\ task[t].highest_discount = Some(10)
          /\ \E i \in 1..Len(discount) :
                /\ discount[i].discounted_products = task[t].product_id
                /\ discount[i].percentage > 10
                /\ discount[i].is_deleted
          /\ \E i \in 1..Len(discount) :
                /\ discount[i].discounted_products # task[t].product_id
                /\ discount[i].percentage > 10
                /\ ~discount[i].is_deleted
                /\ discount[i].start_date <= now
                /\ now < discount[i].end_date

\* The price of the product of a purchase, less the base discount and a
\* bonus, as an exact decimal.
PriceWithBonus(product_id, bonus) ==
    (software[product_id] * (100 - (BaseDiscountOf(product_id) + bonus))) \div 100

\* C29: the bonus of 0.05 is added to the base discount of a purchase if
\* and only if the client has a non-deleted contract, of any product, whose
\* window contains now; the stored price shows the discount, to the grain.
C29_BonusIffCurrentContract ==
    [][\A r \in PurchaseRequests :
         (create_contract(r[1], r[2], r[3]) /\ response'.status = CREATED)
             => LET exact == PriceWithBonus(r[2], BonusOf(r[1]))
                IN contract'[Len(contract')].price \in (exact - 1)..(exact + 1)]_vars

\* A client with a current contract for one product has bought another
\* with the bonus.
C29_Witness ==
    /\ response = [status |-> CREATED, body |-> "Contract created"]
    /\ \E i, j \in 1..Len(contract) :
          /\ i < j
          /\ RowClient(contract[i]) = RowClient(contract[j])
          /\ contract[i].product_id # contract[j].product_id
          /\ contract[i].start_date <= now
          /\ now < contract[i].end_date
          /\ LET exact == PriceWithBonus(contract[j].product_id, 5)
             IN contract[j].price \in (exact - 1)..(exact + 1)

\* The client has a prior contract: not deleted, its end_date passed.
HasPriorContract(client_id) ==
    \E i \in 1..Len(contract) :
        /\ RowClient(contract[i]) = client_id
        /\ ~contract[i].is_deleted
        /\ contract[i].end_date < now

\* C30: a client with a prior contract gets the bonus of 0.05 on a new
\* purchase.
C30_BonusForPriorContract ==
    [][\A r \in PurchaseRequests :
         (/\ HasPriorContract(r[1])
          /\ create_contract(r[1], r[2], r[3])
          /\ response'.status = CREATED)
             => LET exact == PriceWithBonus(r[2], 5)
                IN contract'[Len(contract')].price \in (exact - 1)..(exact + 1)]_vars

\* C31, as claimed: the payment row appended by the renewal of an expired
\* contract has amount -outstanding, where outstanding is the price of the
\* contract less the sum of its payments.
C31_RefundIsMinusOutstanding ==
    [][\A variant \in Variants, client_id \in ClientIds, p \in Payments :
         (/\ Expired(client_id, p[1])
          /\ create_payment(variant, client_id, p[1], p[2]))
             => /\ Len(payment') = Len(payment) + 1
                /\ payment'[Len(payment')].amount = 0 - Outstanding(p[1])]_vars

\* C31, amended: the payment row appended by the renewal of an expired
\* contract has amount -paid, where paid is the sum of the contract's
\* payments, whatever the price of the contract.
C31_RefundIsMinusPaid ==
    [][\A variant \in Variants, client_id \in ClientIds, p \in Payments :
         (/\ Expired(client_id, p[1])
          /\ create_payment(variant, client_id, p[1], p[2]))
             => /\ Len(payment') = Len(payment) + 1
                /\ payment'[Len(payment')].contract_id = p[1]
                /\ payment'[Len(payment')].amount = 0 - LedgerSum(p[1])]_vars

\* A renewal has refunded what was paid, which is not what was left to pay.
C31_Witness ==
    /\ response.body = RenewedBody
    /\ Len(payment) > 1
    /\ LET refund == payment[Len(payment)]
           paid == LedgerSumUpTo(refund.contract_id, Len(payment) - 1)
       IN /\ paid # 0
          /\ refund.amount = 0 - paid
          /\ refund.amount # 0 - (contract[refund.contract_id].price - paid)

\* C32: the payment ledger is append-only: every operation leaves each
\* existing payment row as it is and removes none; and a step that changes
\* the ledger is no rejected payment request, no purchase and no deletion
\* of a client.
C32_LedgerAppendOnly ==
    [][/\ Len(payment') >= Len(payment)
       /\ SubSeq(payment', 1, Len(payment)) = payment
       /\ payment' # payment =>
            /\ \A variant \in Variants, client_id \in ClientIds, p \in Payments :
                  create_payment(variant, client_id, p[1], p[2])
                      => response'.status # BAD_REQUEST
            /\ \A r \in PurchaseRequests : ~create_contract(r[1], r[2], r[3])
            /\ \A client_id \in DeleteClientIds : ~delete_client(client_id)]_vars

\* A payment request has been rejected on a ledger that holds a row, and
\* the row is as it was appended.
C32_Witness ==
    /\ Len(payment) > 0
    /\ response.status = BAD_REQUEST
    /\ response.body \in {"Amount is greater than outstanding payments",
                          "Amount does not match contract price",
                          "Contract is already paid"}

\* C33: the paid check precedes the expiry check: a payment request of the
\* owner on a paid contract whose window has ended is rejected with
\* "Contract is already paid" and appends no refund row and no contract.
C33_PaidBeforeExpiry ==
    [][\A variant \in Variants, client_id \in ClientIds, p \in Payments :
         (/\ p[1] \in 1..Len(contract)
          /\ ClientInStore(client_id)
          /\ RowClient(contract[p[1]]) = client_id
          /\ contract[p[1]].is_paid
          /\ contract[p[1]].end_date <= now
          /\ create_payment(variant, client_id, p[1], p[2]))
             => /\ response' = AlreadyPaid
                /\ Len(payment') = Len(payment)
                /\ Len(contract') = Len(contract)]_vars

\* A payment request on a contract paid in full, its window ended, has been
\* refused, and the contract has no refund and no replacement.
C33_Witness ==
    /\ response = AlreadyPaid
    /\ \E i \in 1..Len(contract) :
          /\ contract[i].is_paid
          /\ contract[i].end_date <= now
          /\ contract[i].price > 0
          /\ LedgerSum(i) = contract[i].price
          /\ ~Renewed(i)

\* Contract j replaces an earlier one: requests being served one at a
\* time, a second row for a client and product comes from a renewal only.
Replacement(j) ==
    \E i \in 1..(j - 1) :
        /\ RowClient(contract[i]) = RowClient(contract[j])
        /\ contract[i].product_id = contract[j].product_id

\* The outcome of the payment request served on the tables as they are.
OutcomeOf(variant, client_id, contract_id, amount) ==
    Run(Store, now, PaymentRequest(variant, client_id, contract_id, amount))

\* C34: the contract created by a renewal has the window of the expired
\* one and so is expired from its creation and unpaid; every payment
\* request of its owner for it, of either variant and any amount, is
\* answered with another renewal, which appends the refund of its ledger
\* and one more contract and leaves is_paid unset.
C34_ReplacementNeverPaid ==
    \A j \in 1..Len(contract) :
        Replacement(j) =>
            /\ contract[j].end_date <= now
            /\ ~contract[j].is_paid
            /\ ClientInStore(RowClient(contract[j])) =>
                  \A variant \in Variants, amount \in AmountsFor(j) :
                      LET r == OutcomeOf(variant, RowClient(contract[j]), j, amount)
                      IN /\ r.reply = [status |-> CREATED, body |-> RenewedBody]
                         /\ Len(r.db.contract) = Len(contract) + 1
                         /\ SubSeq(r.db.contract, 1, Len(contract)) = contract
                         /\ Len(r.db.payment) = Len(payment) + 1
                         /\ r.db.payment[Len(payment) + 1].contract_id = j
                         /\ r.db.payment[Len(payment) + 1].amount = 0 - LedgerSum(j)

\* A renewal has created a replacement whose owner is in the store.
C34_Witness ==
    /\ response.body = RenewedBody
    /\ \E j \in 1..Len(contract) :
          /\ Replacement(j)
          /\ ClientInStore(RowClient(contract[j]))
          /\ contract[j].price > 0

====
